---- MODULE Spec2Model ----
(***************************************************************************)
(* Dynamic-Traffic-Light: the paginated fetch/clean/filter/store script    *)
(* (dynamic_traffic_light.py) and the adjacency scan of the map script     *)
(* (folium_traffic_dataset.py).                                            *)
(*                                                                         *)
(* Three specifications share the module:                                  *)
(*   Spec        one run of dynamic_traffic_light.py against a simulated   *)
(*               paginated source and a database that may fail;            *)
(*   SpecFilter  filter_negative_values applied to bounded input tables;   *)
(*   SpecAdj     the adjacent_intersections loop over bounded tables.      *)
(*                                                                         *)
(* Cell values are tagged: a number, a missing value (NaN), a text, or a   *)
(* nested structure (a JSON object).  A table is a record of the column    *)
(* dtypes and the sequence of rows; a row carries its index label.         *)
(***************************************************************************)
EXTENDS Integers, Sequences, FiniteSets, TLC

VARIABLES
    \* ---- dynamic_traffic_light.py
    pc,           \* position in the script
    limit,        \* page size handed to fetch_data
    src,          \* the simulated remote source
    offset,       \* fetch_data: offset
    all_data,     \* fetch_data: all_data
    reqs,         \* the $offset of every request issued, in order
    df,           \* __main__: df
    filtered_df,  \* __main__: filtered_df, or Unbound
    conn,         \* store_to_sqlite: conn ("unbound", "open", "closed")
    db,           \* contents of traffic_table in traffic_data.db
    log,          \* kinds of log lines written so far
    exc,          \* the uncaught exception that ended the script, or NoExc
    steps,        \* the steps of __main__ that ran
    \* ---- filter_negative_values as a function
    fpc, fin, fout,
    \* ---- folium_traffic_dataset.py, lines 41-59
    apc, gdf, pos, adjacent_intersections, chosen_intersections,
    adjacent_rows, index, examined

mainVars == <<pc, limit, src, offset, all_data, reqs, df, filtered_df, conn,
              db, log, exc, steps>>
filterVars == <<fpc, fin, fout>>
adjVars == <<apc, gdf, pos, adjacent_intersections, chosen_intersections,
             adjacent_rows, index, examined>>
vars == <<mainVars, filterVars, adjVars>>

(***************************************************************************)
(* Bounds of the model.                                                    *)
(***************************************************************************)
\* largest finite dataset of the simulated source
MaxTotal == 5
\* latest page (0-based) at which the simulated source may fail
MaxFail == 2
\* positions 1..MaxMark of the dataset may hold a negative, missing or nested x
MaxMark == 2
\* most rows of an input table of filter_negative_values
MaxFRows == 2
\* most rows of a table scanned for adjacency whose points range over Points
MaxRows == 6

(***************************************************************************)
(* Program constants.                                                      *)
(***************************************************************************)
LIMIT == 500
OFFSET_CEILING == 900
\* buffer_distance = 0.001 degrees, in units of 0.0001 degrees
buffer_distance == 10
SCAN_CAP == 7

(***************************************************************************)
(* Values and tables.                                                      *)
(***************************************************************************)
Num(n) == [k |-> "num", v |-> n]
NaN == [k |-> "nan", v |-> 0]
\* the text whose characters read as the number n ("-1", "3")
Str(n) == [k |-> "str", v |-> n]
\* a nested JSON object
Dict(n) == [k |-> "dict", v |-> n]

Unbound == [dtypes |-> <<>>, rows |-> <<>>, unbound |-> TRUE]
NoExc == "none"
NoFail == 0 - 1

Max(a, b) == IF a >= b THEN a ELSE b
Min(a, b) == IF a <= b THEN a ELSE b

\* pd.DataFrame(records): one row per record with a RangeIndex label, the
\* dtype of each column inferred from its values
InferDtype(vals) ==
    IF \E v \in vals : v.k \in {"str", "dict"} THEN "object"
    ELSE IF \E v \in vals : v.k = "nan" THEN "float64"
    ELSE "int64"

DataFrame(records) ==
    IF records = <<>> THEN [dtypes |-> <<>>, rows |-> <<>>]
    ELSE [dtypes |-> [c \in DOMAIN records[1] |->
                        InferDtype({records[i][c] : i \in 1..Len(records)})],
          rows |-> [i \in 1..Len(records) |-> [idx |-> i - 1, cells |-> records[i]]]]

\* df.empty
empty(t) == t.rows = <<>>

\* the records of a table, without the index labels
Records(t) == [i \in 1..Len(t.rows) |-> t.rows[i].cells]

(***************************************************************************)
(* The simulated source: a dataset of src.n records (endless when          *)
(* src.endless), served in pages; the request for page src.failAt fails.   *)
(***************************************************************************)
PageSizes == {1, 2, 300, LIMIT, OFFSET_CEILING + 1}
Marks == {"ok", "neg", "miss", "dict"}

SourceRecord(s, i) ==
    LET m == IF i \in DOMAIN s.marks THEN s.marks[i] ELSE "ok"
    IN [id |-> Num(i),
        x  |-> CASE m = "ok"   -> Num(i)
                 [] m = "neg"  -> Num(0 - i)
                 [] m = "miss" -> NaN
                 [] m = "dict" -> Dict(i)]

\* response.json() for the request {"$limit": lim, "$offset": off}
Page(s, off, lim) ==
    LET hi == IF s.endless THEN off + lim ELSE Min(off + lim, s.n)
    IN [j \in 1..Max(0, hi - off) |-> SourceRecord(s, off + j)]

Sources ==
    [n : 0..MaxTotal, endless : {FALSE}, failAt : {NoFail} \cup 0..MaxFail,
     marks : [1..MaxMark -> Marks]]
    \cup
    [n : {0}, endless : {TRUE}, failAt : {NoFail},
     marks : {[i \in 1..MaxMark |-> "ok"]}]

(***************************************************************************)
(* fetch_data (dynamic_traffic_light.py:14-42), one action per iteration   *)
(* of the while loop.                                                      *)
(***************************************************************************)
\* all_data.extend(data_chunk)
extendMut(all, chunk) == chunk \o all
extend(all, chunk) == all \o chunk

\* if offset > 900: break
ceiling_exceededMut(off) == off > 1000
ceiling_exceeded(off) == off > OFFSET_CEILING

\* except requests.exceptions.RequestException: ... break
AfterRequestExceptionMut == "fetch"
AfterRequestException == "return"

\* if not data_chunk: break
AfterEmptyChunkMut == "fetch"
AfterEmptyChunk == "return"

RequestFails ==
    /\ pc = "fetch"
    /\ src.failAt = Len(reqs)
    /\ reqs' = Append(reqs, offset)
    /\ log' = log \cup {"info:fetching", "error:request"}
    /\ pc' = AfterRequestException
    /\ UNCHANGED <<limit, src, offset, all_data, df, filtered_df, conn, db,
                   exc, steps>>

RequestEmpty ==
    /\ pc = "fetch"
    /\ src.failAt /= Len(reqs)
    /\ Page(src, offset, limit) = <<>>
    /\ reqs' = Append(reqs, offset)
    /\ log' = log \cup {"info:fetching"}
    /\ pc' = AfterEmptyChunk
    /\ UNCHANGED <<limit, src, offset, all_data, df, filtered_df, conn, db,
                   exc, steps>>

RequestPage ==
    /\ pc = "fetch"
    /\ src.failAt /= Len(reqs)
    /\ Page(src, offset, limit) /= <<>>
    /\ reqs' = Append(reqs, offset)
    /\ log' = log \cup {"info:fetching"}
    /\ all_data' = extend(all_data, Page(src, offset, limit))
    /\ offset' = offset + limit
    /\ pc' = IF ceiling_exceeded(offset') THEN "return" ELSE "fetch"
    /\ UNCHANGED <<limit, src, df, filtered_df, conn, db, exc, steps>>

\* return pd.DataFrame(all_data)
FetchReturn ==
    /\ pc = "return"
    /\ df' = DataFrame(all_data)
    /\ pc' = "main"
    /\ UNCHANGED <<limit, src, offset, all_data, reqs, filtered_df, conn, db,
                   log, exc, steps>>

(***************************************************************************)
(* clean_data (dynamic_traffic_light.py:44-59).                            *)
(***************************************************************************)
MaxOf(S) == CHOOSE m \in S : \A j \in S : j <= m

\* fillna(method='ffill'): the nearest preceding non-missing value of the column
ffill(rows, c, i) ==
    IF rows[i].cells[c].k /= "nan" THEN rows[i].cells[c]
    ELSE LET J == {j \in 1..(i - 1) : rows[j].cells[c].k /= "nan"}
         IN IF J = {} THEN NaN ELSE rows[MaxOf(J)].cells[c]

\* str(x) if isinstance(x, dict) else x
stringify(v) == IF v.k = "dict" THEN Str(v.v) ELSE v

clean_data(t) ==
    [dtypes |-> t.dtypes,
     rows |-> [i \in 1..Len(t.rows) |->
                 [idx |-> t.rows[i].idx,
                  cells |-> [c \in DOMAIN t.dtypes |->
                               IF t.dtypes[c] = "object"
                               THEN stringify(ffill(t.rows, c, i))
                               ELSE ffill(t.rows, c, i)]]]]

(***************************************************************************)
(* filter_negative_values (dynamic_traffic_light.py:61-72).                *)
(***************************************************************************)
\* df.select_dtypes(include=['float64','int']).columns
columns_to_checkMut(t) == {c \in DOMAIN t.dtypes : t.dtypes[c] \in {"float64"}}
columns_to_check(t) == {c \in DOMAIN t.dtypes : t.dtypes[c] \in {"float64", "int64"}}

\* value >= 0 (False for NaN)
GE0(v) == v.k = "num" /\ v.v >= 0

\* (df[columns_to_check] >= 0).all(axis=1), for one row
mask(t, row) == \A c \in columns_to_check(t) : GE0(row.cells[c])

\* df[mask]
filter_negative_values(t) ==
    [dtypes |-> t.dtypes, rows |-> SelectSeq(t.rows, LAMBDA row : mask(t, row))]

(***************************************************************************)
(* __main__ (dynamic_traffic_light.py:85-100) and store_to_sqlite          *)
(* (dynamic_traffic_light.py:74-83).                                       *)
(***************************************************************************)
\* if not df.empty: ... filtered_df = filter_negative_values(clean_data(df))
MainClean ==
    /\ pc = "main"
    /\ ~empty(df)
    /\ df' = clean_data(df)
    /\ filtered_df' = filter_negative_values(clean_data(df))
    /\ log' = log \cup {"info:extracted", "info:missing", "info:shape"}
    /\ steps' = steps \cup {"clean", "filter"}
    /\ pc' = "store"
    /\ UNCHANGED <<limit, src, offset, all_data, reqs, conn, db, exc>>

\* else: logging.warning("No data fetched")
MainNoData ==
    /\ pc = "main"
    /\ empty(df)
    /\ log' = log \cup {"warning:nodata"}
    /\ pc' = "print"
    /\ UNCHANGED <<limit, src, offset, all_data, reqs, df, filtered_df, conn,
                   db, exc, steps>>

\* connect and to_sql succeed; finally: conn.close()
StoreOk ==
    /\ pc = "store"
    /\ db' = filtered_df
    /\ conn' = "closed"
    /\ log' = log \cup {"info:stored"}
    /\ steps' = steps \cup {"store"}
    /\ pc' = "print"
    /\ UNCHANGED <<limit, src, offset, all_data, reqs, df, filtered_df, exc>>

\* df.to_sql raises sqlite3.Error: logged; finally: conn.close()
StoreWriteError ==
    /\ pc = "store"
    /\ conn' = "closed"
    /\ log' = log \cup {"error:database"}
    /\ steps' = steps \cup {"store"}
    /\ pc' = "print"
    /\ UNCHANGED <<limit, src, offset, all_data, reqs, df, filtered_df, db, exc>>

\* sqlite3.connect raises sqlite3.Error: logged; finally: conn.close() reads
\* the local conn, which was never assigned
StoreConnectError ==
    /\ pc = "store"
    /\ conn = "unbound"
    /\ log' = log \cup {"error:database"}
    /\ steps' = steps \cup {"store"}
    /\ exc' = "UnboundLocalError"
    /\ pc' = "crashed"
    /\ UNCHANGED <<limit, src, offset, all_data, reqs, df, filtered_df, conn, db>>

\* print(filtered_df)
PrintFiltered ==
    /\ pc = "print"
    /\ IF filtered_df = Unbound
       THEN exc' = "NameError" /\ pc' = "crashed"
       ELSE exc' = exc /\ pc' = "done"
    /\ UNCHANGED <<limit, src, offset, all_data, reqs, df, filtered_df, conn,
                   db, log, steps>>

\* the table a previous run left in the database
OldTable == DataFrame(<<[id |-> Num(0), x |-> Num(0)]>>)

FilterIdle == fpc = "idle" /\ fin = Unbound /\ fout = Unbound
AdjIdle ==
    /\ apc = "idle" /\ gdf = <<>> /\ pos = 0 /\ adjacent_intersections = <<>>
    /\ chosen_intersections = <<>> /\ adjacent_rows = <<>> /\ index = 0
    /\ examined = <<>>
MainIdle ==
    /\ pc = "idle" /\ limit = 0 /\ src = 0 /\ offset = 0 /\ all_data = <<>>
    /\ reqs = <<>> /\ df = Unbound /\ filtered_df = Unbound /\ conn = "unbound"
    /\ db = Unbound /\ log = {} /\ exc = NoExc /\ steps = {}

Init ==
    /\ pc = "fetch"
    /\ limit \in PageSizes
    /\ src \in Sources
    /\ offset = 0
    /\ all_data = <<>>
    /\ reqs = <<>>
    /\ df = Unbound
    /\ filtered_df = Unbound
    /\ conn = "unbound"
    /\ db = OldTable
    /\ log = {}
    /\ exc = NoExc
    /\ steps = {}
    /\ FilterIdle
    /\ AdjIdle

Next ==
    \/ RequestFails /\ UNCHANGED <<filterVars, adjVars>>
    \/ RequestEmpty /\ UNCHANGED <<filterVars, adjVars>>
    \/ RequestPage /\ UNCHANGED <<filterVars, adjVars>>
    \/ FetchReturn /\ UNCHANGED <<filterVars, adjVars>>
    \/ MainClean /\ UNCHANGED <<filterVars, adjVars>>
    \/ MainNoData /\ UNCHANGED <<filterVars, adjVars>>
    \/ StoreOk /\ UNCHANGED <<filterVars, adjVars>>
    \/ StoreWriteError /\ UNCHANGED <<filterVars, adjVars>>
    \/ StoreConnectError /\ UNCHANGED <<filterVars, adjVars>>
    \/ PrintFiltered /\ UNCHANGED <<filterVars, adjVars>>

Spec == Init /\ [][Next]_vars

(***************************************************************************)
(* filter_negative_values applied to bounded input tables.                 *)
(***************************************************************************)
Cols == {"x", "y"}
Dtypes == {"int64", "float64", "object"}

CellValues(dtype) ==
    CASE dtype = "int64"   -> {Num(0 - 1), Num(0), Num(3)}
      [] dtype = "float64" -> {Num(0 - 1), Num(2), NaN}
      [] dtype = "object"  -> {Str(0 - 1), Dict(1)}

\* the rows of a table from their cells, with a RangeIndex label
WithIndex(cells) == [i \in 1..Len(cells) |-> [idx |-> i - 1, cells |-> cells[i]]]

TablesOf(dt, maxRows) ==
    UNION {{[dtypes |-> dt, rows |-> WithIndex(cells)] :
              cells \in [1..n -> [x : CellValues(dt.x), y : CellValues(dt.y)]]} :
           n \in 0..maxRows}

\* columns [x: -1, y: 2] and [x: 3, y: 4]
ScenarioTable ==
    DataFrame(<<[x |-> Num(0 - 1), y |-> Num(2)], [x |-> Num(3), y |-> Num(4)]>>)

FilterInputs(maxRows) ==
    UNION {TablesOf(dt, maxRows) : dt \in [Cols -> Dtypes]} \cup {ScenarioTable}

ApplyFilter ==
    /\ fpc = "call"
    /\ fout' = filter_negative_values(fin)
    /\ fpc' = "done"
    /\ UNCHANGED <<fin, mainVars, adjVars>>

InitFilter ==
    /\ fpc = "call"
    /\ fin \in FilterInputs(MaxFRows)
    /\ fout = Unbound
    /\ MainIdle
    /\ AdjIdle

NextFilter == ApplyFilter

SpecFilter == InitFilter /\ [][NextFilter]_vars

(***************************************************************************)
(* The adjacency scan (folium_traffic_dataset.py:29-59).  Coordinates are  *)
(* in units of 0.0001 degrees; a buffer is the disc of radius              *)
(* buffer_distance around its point.                                       *)
(***************************************************************************)
Points == {<<0, 0>>, <<0, 8>>, <<0, 30>>}
NumStreets == 3

\* gdf.geometry.buffer(buffer_distance)
buffer(pt) == [center |-> pt, radius |-> buffer_distance]

Abs(a) == IF a >= 0 THEN a ELSE 0 - a

\* the point q lies within distance r of the point p
Within(p, q, r) ==
    /\ Abs(p[1] - q[1]) <= r
    /\ Abs(p[2] - q[2]) <= r
    /\ (p[1] - q[1]) * (p[1] - q[1]) + (p[2] - q[2]) * (p[2] - q[2]) <= r * r

\* buf.intersects(pt)
intersects(buf, pt) == Within(buf.center, pt, buf.radius)

\* gpd.GeoDataFrame(df, geometry=geometry) with the buffer column
GeoFrame(streets, pts) ==
    [i \in 1..Len(pts) |->
        [idx |-> i - 1, street |-> streets[i], geometry |-> pts[i],
         buffer |-> buffer(pts[i])]]

\* gdf[gdf['buffer'].intersects(row['geometry']) & (gdf.index != idx)]
adjacentMut(g, row) ==
    SelectSeq(g, LAMBDA r : intersects(r.buffer, row.geometry))
adjacentLater(g, row) ==
    SelectSeq(g, LAMBDA r : intersects(r.buffer, row.geometry) /\ r.idx > row.idx)
adjacent(g, row) ==
    SelectSeq(g, LAMBDA r : intersects(r.buffer, row.geometry) /\ r.idx /= row.idx)

\* adjacent['street'].tolist()
tolist(rows) == [i \in 1..Len(rows) |-> rows[i].street]

\* if index == 7: break
cap_reachedMut(ix) == ix = SCAN_CAP + 1
cap_reached(ix) == ix = SCAN_CAP

\* one iteration of the for loop whose row has at least one adjacent row
ScanRowMatch ==
    /\ apc = "scan"
    /\ pos <= Len(gdf)
    /\ adjacent(gdf, gdf[pos]) /= <<>>
    /\ adjacent_intersections' =
          Append(adjacent_intersections,
                 [intersection |-> gdf[pos].street,
                  adjacent |-> tolist(adjacent(gdf, gdf[pos]))])
    /\ adjacent_rows' = Append(adjacent_rows, gdf[pos])
    /\ chosen_intersections' = Append(chosen_intersections, gdf[pos].street)
    /\ index' = index + 1
    /\ examined' = Append(examined, gdf[pos].idx)
    /\ IF cap_reached(index')
       THEN apc' = "done" /\ pos' = pos
       ELSE apc' = "scan" /\ pos' = pos + 1
    /\ UNCHANGED <<gdf, mainVars, filterVars>>

\* one iteration of the for loop whose row has no adjacent row
ScanRowNoMatch ==
    /\ apc = "scan"
    /\ pos <= Len(gdf)
    /\ adjacent(gdf, gdf[pos]) = <<>>
    /\ examined' = Append(examined, gdf[pos].idx)
    /\ IF cap_reached(index)
       THEN apc' = "done" /\ pos' = pos
       ELSE apc' = "scan" /\ pos' = pos + 1
    /\ UNCHANGED <<gdf, adjacent_intersections, adjacent_rows,
                   chosen_intersections, index, mainVars, filterVars>>

\* gdf.iterrows() is exhausted
ScanEnd ==
    /\ apc = "scan"
    /\ pos > Len(gdf)
    /\ apc' = "done"
    /\ UNCHANGED <<gdf, pos, adjacent_intersections, adjacent_rows,
                   chosen_intersections, index, examined, mainVars, filterVars>>

\* (0,0), (0,0.0001), (5,5), (5,5.0001)
ScenarioPoints == <<<<0, 0>>, <<0, 1>>, <<50000, 50000>>, <<50000, 50001>>>>
ScenarioGdf == GeoFrame(<<1, 2, 3, 4>>, ScenarioPoints)

\* street identifiers repeat every NumStreets rows
StreetNames(n) == [i \in 1..n |-> ((i - 1) % NumStreets) + 1]

\* tables long enough for the scan to stop before their last rows, over two
\* points far from each other
LongRows == {SCAN_CAP + 1, SCAN_CAP + 2}
CrowdPoints == {<<0, 0>>, <<0, 30>>}

AdjInputs(maxRows) ==
    UNION {{GeoFrame(StreetNames(n), pts) : pts \in [1..n -> Points]} : n \in 0..maxRows}
    \cup UNION {{GeoFrame(StreetNames(n), pts) : pts \in [1..n -> CrowdPoints]} :
                  n \in LongRows}
    \cup {ScenarioGdf}

InitAdj ==
    /\ apc = "scan"
    /\ gdf \in AdjInputs(MaxRows)
    /\ pos = 1
    /\ adjacent_intersections = <<>>
    /\ chosen_intersections = <<>>
    /\ adjacent_rows = <<>>
    /\ index = 0
    /\ examined = <<>>
    /\ MainIdle
    /\ FilterIdle

NextAdj ==
    \/ ScanRowMatch
    \/ ScanRowNoMatch
    \/ ScanEnd

SpecAdj == InitAdj /\ [][NextAdj]_vars

(***************************************************************************)
(* Properties of fetch_data, checked under Spec.                           *)
(***************************************************************************)
\* the request for page k (0-based) was answered, not failed
Answered(k) == src.failAt /= k

\* the page the source serves at the k-th request of a run (0-based)
PageOf(k) == IF Answered(k) THEN Page(src, k * limit, limit) ELSE <<>>

\* the records of pages lo..hi (0-based), concatenated in request order
RECURSIVE ConcatPages(_, _)
ConcatPages(lo, hi) ==
    IF lo > hi THEN <<>>
    ELSE IF lo = hi THEN PageOf(lo)
    ELSE LET mid == (lo + hi) \div 2
         IN ConcatPages(lo, mid) \o ConcatPages(mid + 1, hi)

\* C1: the table fetch_data returns holds exactly the records of every page
\* that was fetched successfully, concatenated in request order (offsets 0, P,
\* 2P, ...): nothing dropped, duplicated, reordered or added.
C1_ReturnsConcatenation ==
    pc = "main" =>
        /\ \A i \in 1..Len(reqs) : reqs[i] = (i - 1) * limit
        /\ Records(df) = ConcatPages(0, Len(reqs) - 1)
        /\ \A i \in 1..Len(df.rows) : df.rows[i].idx = i - 1

\* a run of three full or partial pages followed by the empty page
C1_Witness ==
    /\ pc = "main"
    /\ limit = 2
    /\ Len(reqs) = 4
    /\ Len(df.rows) = 5
    /\ src.failAt = NoFail

\* C2: no request is issued with an $offset above the ceiling of 900, and no
\* request follows once the offset has passed the ceiling.
C2_OffsetCeiling ==
    /\ \A i \in 1..Len(reqs) : reqs[i] <= OFFSET_CEILING
    /\ offset > OFFSET_CEILING => pc /= "fetch"

\* an endless source stopped by the ceiling after a request at offset 900
C2_Witness ==
    /\ src.endless
    /\ pc = "main"
    /\ reqs[Len(reqs)] = OFFSET_CEILING
    /\ offset > OFFSET_CEILING

\* the request for page src.failAt has been issued and has failed
Failed == src.failAt /= NoFail /\ Len(reqs) > src.failAt

\* C3: a request failure on page k ends pagination at once: the failed request
\* is the last one, and the table returned holds exactly the records of pages
\* 0..k-1.
C3_FailureEndsPagination ==
    Failed =>
        /\ Len(reqs) = src.failAt + 1
        /\ pc /= "fetch"
        /\ all_data = ConcatPages(0, src.failAt - 1)
        /\ pc = "main" => Records(df) = ConcatPages(0, src.failAt - 1)

\* the third request failed after two pages had been accumulated
C3_Witness ==
    /\ Failed
    /\ src.failAt = 2
    /\ pc = "main"
    /\ Len(df.rows) = 2 * limit

\* C4: the first empty page is the last request: no request follows it and
\* the offset is not advanced; pages of 2, 2, 0 records with page size 2 make
\* exactly the requests at offsets 0, 2, 4 and 4 accumulated records.
C4_EmptyPageIsLast ==
    /\ \A i \in 1..Len(reqs) :
          (Answered(i - 1) /\ Page(src, reqs[i], limit) = <<>>) =>
              /\ i = Len(reqs)
              /\ pc /= "fetch"
              /\ offset = reqs[i]
    /\ (limit = 2 /\ src.n = 4 /\ ~src.endless /\ src.failAt = NoFail
            /\ pc \notin {"fetch"}) =>
          /\ reqs = <<0, 2, 4>>
          /\ Len(all_data) = 4

\* the scenario's run has returned
C4_Witness ==
    /\ limit = 2 /\ src.n = 4 /\ ~src.endless /\ src.failAt = NoFail
    /\ pc = "main"
    /\ reqs = <<0, 2, 4>>
    /\ Len(df.rows) = 4

(***************************************************************************)
(* Properties of store_to_sqlite and __main__, checked under Spec.         *)
(***************************************************************************)
\* C8: store_to_sqlite lets no database error escape: once it has run, no
\* exception has reached the caller and the connection is closed.
C8_NoDatabaseErrorEscapes ==
    "store" \in steps => (exc = NoExc /\ conn = "closed")

\* C9: when the Fetcher returns no records the run logs a warning, performs
\* no clean, filter or store step, leaves the stored table unchanged and
\* reaches the end of the script without raising an error.
C9_NoDataDegradesToLog ==
    (pc \in {"done", "crashed"} /\ empty(df)) =>
        /\ "warning:nodata" \in log
        /\ steps = {}
        /\ db = OldTable
        /\ exc = NoExc
        /\ pc = "done"

(***************************************************************************)
(* Properties of filter_negative_values, checked under SpecFilter.         *)
(***************************************************************************)
\* a column whose values are numbers (or missing numbers)
IsNumericCol(t, c) == \A i \in 1..Len(t.rows) : t.rows[i].cells[c].k \in {"num", "nan"}

NonNegative(v) == v.k = "num" /\ v.v >= 0

\* C5: after filter_negative_values every value of every numeric column of
\* every remaining row is non-negative; the remaining rows are input rows in
\* their original order; a row whose numeric values are all non-negative is
\* kept whatever its other columns hold; of the rows [x: -1, y: 2] and
\* [x: 3, y: 4] only the second remains.
C5_FilterNonNegative ==
    fpc = "done" =>
        /\ \A i \in 1..Len(fout.rows) : \A c \in DOMAIN fin.dtypes :
              IsNumericCol(fin, c) => NonNegative(fout.rows[i].cells[c])
        /\ Len(fout.rows) <= Len(fin.rows)
        /\ \A i \in 1..Len(fout.rows) :
              /\ fout.rows[i].idx + 1 \in 1..Len(fin.rows)
              /\ fout.rows[i] = fin.rows[fout.rows[i].idx + 1]
        /\ \A i, j \in 1..Len(fout.rows) :
              i < j => fout.rows[i].idx < fout.rows[j].idx
        /\ \A i \in 1..Len(fin.rows) :
              (\A c \in DOMAIN fin.dtypes :
                  IsNumericCol(fin, c) => NonNegative(fin.rows[i].cells[c]))
              => \E j \in 1..Len(fout.rows) : fout.rows[j].idx = fin.rows[i].idx
        /\ fin = ScenarioTable => fout.rows = <<fin.rows[2]>>

\* a negative-looking text survives in a kept row while another row is dropped
C5_Witness ==
    /\ fpc = "done"
    /\ fin.dtypes.y = "object"
    /\ Len(fout.rows) < Len(fin.rows)
    /\ \E i \in 1..Len(fout.rows) : fout.rows[i].cells.y = Str(0 - 1)

(***************************************************************************)
(* Properties of the adjacency scan, checked under SpecAdj.                *)
(***************************************************************************)
\* the point of row B lies within the fixed radius of the point of row A
Near(A, B) == Within(A.geometry, B.geometry, buffer_distance)

InSeq(x, sq) == \E j \in 1..Len(sq) : sq[j] = x

\* row B is one of the rows that put their identifier in the k-th entry's list
AppearsIn(B, k) ==
    /\ B.idx /= adjacent_rows[k].idx
    /\ Near(adjacent_rows[k], B)
    /\ InSeq(B.street, adjacent_intersections[k].adjacent)

\* an entry was produced for row B and lists the identifier of row A
HasEntryListing(B, A) ==
    \E k \in 1..Len(adjacent_rows) :
        /\ adjacent_rows[k].idx = B.idx
        /\ InSeq(A.street, adjacent_intersections[k].adjacent)

\* C6 as stated: whenever row B appears in the list of the entry produced for
\* row A, an entry is produced for row B and lists row A.
C6_Symmetric ==
    apc = "done" =>
        \A k \in 1..Len(adjacent_rows) : \A i \in 1..Len(gdf) :
            AppearsIn(gdf[i], k) => HasEntryListing(gdf[i], adjacent_rows[k])

\* C6 as amended: whenever row B appears in the list of the entry produced for
\* row A and the scan examined row B (the seven-entry cap did not end it
\* before B), an entry is produced for row B and lists row A.
C6_SymmetricAmongExamined ==
    apc = "done" =>
        \A k \in 1..Len(adjacent_rows) : \A i \in 1..Len(gdf) :
            (AppearsIn(gdf[i], k) /\ InSeq(gdf[i].idx, examined))
            => HasEntryListing(gdf[i], adjacent_rows[k])

\* two coincident points, each in the other's list
C6_Witness ==
    /\ apc = "done"
    /\ \E k \in 1..Len(adjacent_rows) : \E i \in 1..Len(gdf) :
          /\ AppearsIn(gdf[i], k)
          /\ gdf[i].geometry = adjacent_rows[k].geometry
          /\ InSeq(gdf[i].idx, examined)
          /\ HasEntryListing(gdf[i], adjacent_rows[k])

\* the identifiers, in table order, of the rows other than R near R
ExpectedList(R) ==
    tolist(SelectSeq(gdf, LAMBDA B : B.idx /= R.idx /\ Near(R, B)))

\* C7: the entry produced for a row R lists, once per row and in table
\* order, the identifier of every other row within the radius of R and of no
\* other row; R never contributes to its own list; the four points (0,0),
\* (0,0.0001), (5,5), (5,5.0001) each list only their near neighbour.
C7_AdjacentList ==
    /\ Len(adjacent_rows) = Len(adjacent_intersections)
    /\ \A k \in 1..Len(adjacent_intersections) :
          /\ adjacent_rows[k] = gdf[adjacent_rows[k].idx + 1]
          /\ adjacent_intersections[k].intersection = adjacent_rows[k].street
          /\ adjacent_intersections[k].adjacent = ExpectedList(adjacent_rows[k])
    /\ (gdf = ScenarioGdf /\ apc = "done") =>
          adjacent_intersections =
              <<[intersection |-> 1, adjacent |-> <<2>>],
                [intersection |-> 2, adjacent |-> <<1>>],
                [intersection |-> 3, adjacent |-> <<4>>],
                [intersection |-> 4, adjacent |-> <<3>>]>>

\* an entry that lists the same identifier twice while a row lies farther away
C7_Witness ==
    \E k \in 1..Len(adjacent_intersections) :
        /\ \E i, j \in 1..Len(adjacent_intersections[k].adjacent) :
              /\ i < j
              /\ adjacent_intersections[k].adjacent[i] =
                     adjacent_intersections[k].adjacent[j]
        /\ \E i \in 1..Len(gdf) : ~Near(adjacent_rows[k], gdf[i])

\* row R has at least one match
HasMatch(R) == \E i \in 1..Len(gdf) : gdf[i].idx /= R.idx /\ Near(R, gdf[i])

\* the rows with a match, in table order
Matching == SelectSeq(gdf, HasMatch)

\* C10: the scan produces at most seven entries, for the first seven rows in
\* table order that have a match, and examines no row after the seventh is
\* recorded; with fewer than seven such rows it examines every row and
\* produces exactly one entry for each row with a match.
C10_ScanCap ==
    /\ Len(adjacent_intersections) <= SCAN_CAP
    /\ index = Len(adjacent_intersections)
    /\ apc = "done" =>
          /\ adjacent_rows = SubSeq(Matching, 1, Min(SCAN_CAP, Len(Matching)))
          /\ chosen_intersections = tolist(adjacent_rows)
          /\ Len(adjacent_intersections) = Len(adjacent_rows)
          /\ examined =
                IF Len(Matching) >= SCAN_CAP
                THEN [i \in 1..(Matching[SCAN_CAP].idx + 1) |-> i - 1]
                ELSE [i \in 1..Len(gdf) |-> i - 1]

\* eight rows have a match and the scan stopped before the eighth
C10_Witness ==
    /\ apc = "done"
    /\ Len(Matching) > SCAN_CAP
    /\ Len(adjacent_intersections) = SCAN_CAP
    /\ Len(examined) < Len(gdf)

====
